---- MODULE Spec2Model ----
(***************************************************************************)
(* A model of proxy.py, the FastAPI gateway in front of one Oracle REST    *)
(* collection: the forwarding function make_oracle_request, the route      *)
(* handlers, the two exception handlers, and the single asyncio event loop *)
(* on which uvicorn runs every handler.                                    *)
(*                                                                         *)
(* JSON values are tagged records.  Python's None and JSON's null are the  *)
(* same value (Null); a key that is absent from an object is simply not in *)
(* the domain of the object's function.  Integers are IntV(n); floats are   *)
(* FloatV(n) with n counted in tenths (every amount of the model is a       *)
(* multiple of 0.5, which binary floating point adds exactly); NonFinite   *)
(* is a nan or an infinity.                                                *)
(***************************************************************************)
EXTENDS Integers, Sequences, FiniteSets, TLC

VARIABLES
    newRequests, \* the installed requests raises its own JSONDecodeError (2.27 and later)
    loop,       \* the request whose handler holds the event-loop thread, 0 if none
    pc,         \* pc[r]: where request r's handler stands
    req,        \* req[r]: the inbound request (route and path parameter)
    call,       \* call[r]: method and url handed to make_oracle_request
    upstream,   \* upstream[r]: what the outbound call to the Oracle URL produced
    fwd,        \* fwd[r]: what make_oracle_request returned or raised
    local,      \* local[r]: the handler's locals kept across its second outbound call
    timesvc,    \* timesvc[r]: what the call to the time service produced
    resp,       \* resp[r]: the HTTP response sent to the caller
    log         \* the records emitted through the module's logger, in order

vars == <<newRequests, loop, pc, req, call, upstream, fwd, local, timesvc, resp, log>>

----------------------------------------------------------------------------
(* JSON / Python values *)

Null == [t |-> "null"]
True == [t |-> "bool", b |-> TRUE]
Str(s) == [t |-> "str", s |-> s]
Text(cs) == [t |-> "str", c |-> cs]
IntV(n) == [t |-> "num", n |-> n]
FloatV(n) == [t |-> "num", tenths |-> n]
NonFinite == [t |-> "num", nonfinite |-> TRUE]
Obj(f) == [t |-> "obj", f |-> f]
Arr(a) == [t |-> "arr", a |-> a]
EmptyDict == [k \in {} |-> Null]

\* str(e) of an exception e: a string determined by e, kept symbolic
StrOf(e) == [t |-> "str", of |-> e]

IsObj(v) == v.t = "obj"
IsArr(v) == v.t = "arr"

\* d.get(key, default) on a dict
Get(d, key, default) ==
    IF key \in DOMAIN d.f THEN d.f[key] ELSE default

\* the truth value Python gives a value in `if product:`
Truthy(v) ==
    CASE v = Null -> FALSE
      [] v = Str("") -> FALSE
      [] v = IntV(0) -> FALSE
      [] OTHER -> TRUE

RECURSIVE Finite(_)
\* json.dumps(v, allow_nan=False) succeeds: v holds no nan and no infinity
Finite(v) ==
    CASE v = NonFinite -> FALSE
      [] v.t = "obj" -> \A k \in DOMAIN v.f : Finite(v.f[k])
      [] v.t = "arr" -> \A i \in DOMAIN v.a : Finite(v.a[i])
      [] OTHER -> TRUE

----------------------------------------------------------------------------
(* Results of Python code: a returned value or a raised exception *)

Return(v) == [ret |-> TRUE, val |-> v]
Raise(e) == [ret |-> FALSE, exc |-> e]
Exc(type) == [type |-> type]

\* HTTPException(status_code=code, detail=detail), detail a string
HTTPException(code, detail) ==
    [type |-> "HTTPException", status_code |-> code, detail |-> detail]

\* the classes an exception of a given type is an instance of
Classes(type) ==
    CASE type = "ReadTimeout" -> {"ReadTimeout", "Timeout", "RequestException", "Exception"}
      [] type = "ConnectTimeout" ->
            {"ConnectTimeout", "ConnectionError", "Timeout", "RequestException", "Exception"}
      [] type = "ConnectionError" -> {"ConnectionError", "RequestException", "Exception"}
      [] type = "TooManyRedirects" -> {"TooManyRedirects", "RequestException", "Exception"}
      [] type = "requests.JSONDecodeError" ->
            {"requests.JSONDecodeError", "RequestException", "ValueError", "Exception"}
      [] type = "json.JSONDecodeError" -> {"json.JSONDecodeError", "ValueError", "Exception"}
      [] OTHER -> {type, "Exception"}

IsInstance(e, class) == class \in Classes(e.type)

----------------------------------------------------------------------------
(* The outbound call and the forwarding function *)

ORACLE_URL == "https://gp8wf9ag.adb.me-jeddah-1.oraclecloud.com/ords/petrolube_staging/table1_11/"

\* what requests.request / requests.get produces: a response or an exception
Responded(status, body) == [kind |-> "response", status_code |-> status, body |-> body]
Failed(type) == [kind |-> "raised", exc |-> Exc(type)]

\* a response body: text that is JSON (given by the value it parses to) or is not
JsonBody(v) == [json |-> TRUE, value |-> v]
NotJsonBody == [json |-> FALSE]

\* response.json(): the parsed value, or the JSONDecodeError of the installed
\* requests (a RequestException since requests 2.27, the json module's before)
ResponseJson(body, newJson) ==
    IF body.json THEN Return(body.value)
    ELSE Raise(Exc(IF newJson THEN "requests.JSONDecodeError" ELSE "json.JSONDecodeError"))

\* logger.info(f"{method} {url} - Status: {response.status_code}")
LogStatus(method, url, status) ==
    [level |-> "INFO", by |-> "make_oracle_request",
     method |-> method, url |-> url, status |-> status]

\* logger.error(f"Request error: {str(e)}")
LogRequestError(e) ==
    [level |-> "ERROR", by |-> "make_oracle_request", msg |-> "Request error", exc |-> e]

\* ErrorMessage with the bare except removed from the picture: every body
\* without a usable `message` gets the default of .get
ErrorMessageOneDefault(status, body, newJson) ==
    LET error_data == ResponseJson(body, newJson)
    IN  IF error_data.ret /\ IsObj(error_data.val)
          THEN Get(error_data.val, "message", Str("Oracle API error: " \o ToString(status)))
        ELSE Str("Oracle API error: " \o ToString(status))

\* the inner try/except of the else branch: the detail of a relayed error
ErrorMessage(status, body, newJson) ==
    LET error_data == ResponseJson(body, newJson)
    IN  IF ~error_data.ret
          THEN Str("Oracle API returned status " \o ToString(status))
        ELSE IF ~IsObj(error_data.val)
          \* .get on a list, a string, a number or None raises AttributeError,
          \* which the bare except swallows too
          THEN Str("Oracle API returned status " \o ToString(status))
        ELSE Get(error_data.val, "message", Str("Oracle API error: " \o ToString(status)))

\* StatusBranch with the 201 branch returning the body as the 200 branch does
StatusBranchUnwrapped(status, body, newJson) ==
    CASE status \in {200, 201} -> ResponseJson(body, newJson)
      [] status = 404 -> Raise(HTTPException(404, Str("Record not found")))
      [] OTHER -> Raise(HTTPException(status, ErrorMessage(status, body, newJson)))

\* the branch on response.status_code
StatusBranch(status, body, newJson) ==
    CASE status = 200 -> ResponseJson(body, newJson)
      [] status = 201 ->
            LET data == ResponseJson(body, newJson)
            IN  IF data.ret THEN Return(Obj([success |-> True, data |-> data.val]))
                ELSE data
      [] status = 404 -> Raise(HTTPException(404, Str("Record not found")))
      [] OTHER -> Raise(HTTPException(status, ErrorMessage(status, body, newJson)))

\* the body of the outer try: the call, the log line, the status branch
TryBlock(method, url, outcome, newJson) ==
    IF outcome.kind = "raised"
      THEN [result |-> Raise(outcome.exc), log |-> <<>>]
      ELSE [result |-> StatusBranch(outcome.status_code, outcome.body, newJson),
            log |-> <<LogStatus(method, url, outcome.status_code)>>]

\* ExceptClauses with the last clause written `except Exception`, which also
\* catches the HTTPException raised inside the try
ExceptClausesBroad(t) ==
    IF t.result.ret THEN t
    ELSE IF IsInstance(t.result.exc, "Timeout")
      THEN [result |-> Raise(HTTPException(504, Str("Oracle database timeout"))),
            log |-> t.log]
    ELSE IF IsInstance(t.result.exc, "ConnectionError")
      THEN [result |-> Raise(HTTPException(503, Str("Cannot connect to Oracle database"))),
            log |-> t.log]
    ELSE [result |-> Raise(HTTPException(500, Str("Internal server error"))),
          log |-> t.log \o <<LogRequestError(t.result.exc)>>]

\* ExceptClauses with the ConnectionError clause ahead of the Timeout clause
ExceptClausesReordered(t) ==
    IF t.result.ret THEN t
    ELSE IF IsInstance(t.result.exc, "ConnectionError")
      THEN [result |-> Raise(HTTPException(503, Str("Cannot connect to Oracle database"))),
            log |-> t.log]
    ELSE IF IsInstance(t.result.exc, "Timeout")
      THEN [result |-> Raise(HTTPException(504, Str("Oracle database timeout"))),
            log |-> t.log]
    ELSE IF IsInstance(t.result.exc, "RequestException")
      THEN [result |-> Raise(HTTPException(500, Str("Internal server error"))),
            log |-> t.log \o <<LogRequestError(t.result.exc)>>]
    ELSE t

\* the three except clauses, in their order
ExceptClauses(t) ==
    IF t.result.ret THEN t
    ELSE IF IsInstance(t.result.exc, "Timeout")
      THEN [result |-> Raise(HTTPException(504, Str("Oracle database timeout"))),
            log |-> t.log]
    ELSE IF IsInstance(t.result.exc, "ConnectionError")
      THEN [result |-> Raise(HTTPException(503, Str("Cannot connect to Oracle database"))),
            log |-> t.log]
    ELSE IF IsInstance(t.result.exc, "RequestException")
      THEN [result |-> Raise(HTTPException(500, Str("Internal server error"))),
            log |-> t.log \o <<LogRequestError(t.result.exc)>>]
    ELSE t

\* make_oracle_request(method, url, data), given what the outbound call produces:
\* what it returns or raises, and the log records it emits
make_oracle_request(method, url, outcome, newJson) ==
    ExceptClauses(TryBlock(method, url, outcome, newJson))

----------------------------------------------------------------------------
(* Responses: the framework's serialisation and the two exception handlers *)

JSONResponse(code, content) == [status_code |-> code, content |-> content]

http_exception_handler(exc) ==
    JSONResponse(exc.status_code,
                 Obj([error |-> exc.detail, status_code |-> IntV(exc.status_code)]))

LogUnhandled(exc) ==
    [level |-> "ERROR", by |-> "general_exception_handler",
     msg |-> "Unhandled exception", exc |-> exc]

general_exception_handler(exc) ==
    JSONResponse(500, Obj([error |-> Str("Internal server error"), details |-> StrOf(exc)]))

\* What the application answers when a handler returned or raised `result`: the
\* returned value is rendered by JSONResponse (json.dumps with allow_nan=False, a
\* ValueError on a nan or an infinity), an HTTPException goes to
\* http_exception_handler, anything else to general_exception_handler.
Answer(result) ==
    IF result.ret
      THEN IF Finite(result.val)
             THEN [response |-> JSONResponse(200, result.val), log |-> <<>>]
             ELSE [response |-> general_exception_handler(Exc("ValueError")),
                   log |-> <<LogUnhandled(Exc("ValueError"))>>]
    ELSE IF result.exc.type = "HTTPException"
      THEN [response |-> http_exception_handler(result.exc), log |-> <<>>]
    ELSE [response |-> general_exception_handler(result.exc),
          log |-> <<LogUnhandled(result.exc)>>]

----------------------------------------------------------------------------
(* float() of a JSON value *)

Digits == {"0", "1", "2", "3", "4", "5", "6", "7", "8", "9"}
DigitVal(c) == CHOOSE n \in 0..9 : ToString(n) = c
AllDigits(cs) == \A i \in DOMAIN cs : cs[i] \in Digits

RECURSIVE Natural(_)
Natural(cs) ==
    IF cs = <<>> THEN 0
    ELSE 10 * Natural(SubSeq(cs, 1, Len(cs) - 1)) + DigitVal(cs[Len(cs)])

\* An unsigned decimal "ddd", "ddd.d", "ddd." or ".d" in tenths, -1 if the text is
\* no such decimal.  The texts of the model carry at most one fractional digit and
\* no exponent, blank or underscore.
Unsigned(cs) ==
    LET dots == {i \in DOMAIN cs : cs[i] = "."}
    IN  IF dots = {}
          THEN IF cs # <<>> /\ AllDigits(cs) THEN 10 * Natural(cs) ELSE -1
        ELSE IF Cardinality(dots) > 1 THEN -1
        ELSE LET p == CHOOSE i \in dots : TRUE
                 whole == SubSeq(cs, 1, p - 1)
                 frac == SubSeq(cs, p + 1, Len(cs))
             IN  IF /\ AllDigits(whole) /\ AllDigits(frac)
                    /\ Len(whole) + Len(frac) > 0 /\ Len(frac) <= 1
                   THEN 10 * Natural(whole) + Natural(frac)
                 ELSE -1

\* float(text) of a str given by its characters
ParseFloat(cs) ==
    LET signed == cs # <<>> /\ cs[1] \in {"+", "-"}
        rest == IF signed THEN Tail(cs) ELSE cs
    IN  IF rest \in {<<"n", "a", "n">>, <<"i", "n", "f">>} THEN Return(NonFinite)
        ELSE IF Unsigned(rest) < 0 THEN Raise(Exc("ValueError"))
        ELSE Return(FloatV(IF signed /\ cs[1] = "-" THEN 0 - Unsigned(rest)
                           ELSE Unsigned(rest)))

\* float(v)
ToFloat(v) ==
    CASE v.t = "num" /\ "n" \in DOMAIN v -> Return(FloatV(10 * v.n))
      [] v.t = "num" /\ "n" \notin DOMAIN v -> Return(v)
      [] v.t = "str" /\ "c" \in DOMAIN v -> ParseFloat(v.c)
      [] v.t = "str" /\ "c" \notin DOMAIN v -> Raise(Exc("ValueError"))
      [] OTHER -> Raise(Exc("TypeError"))

\* a number's value in tenths
Tenths(v) == IF "n" \in DOMAIN v THEN 10 * v.n ELSE v.tenths

\* a + b where b is a float
Add(a, b) ==
    IF a = NonFinite \/ b = NonFinite THEN NonFinite
    ELSE FloatV(Tenths(a) + Tenths(b))

----------------------------------------------------------------------------
(* get_summary_stats *)

RECURSIVE SumFrom(_, _)
\* sum(float(r.get("total_amount", 0)) for r in records), the items taken in
\* order from the start value acc; the first float() that raises ends it
SumFrom(acc, records) ==
    IF records = <<>> THEN Return(acc)
    ELSE LET x == ToFloat(Get(Head(records), "total_amount", IntV(0)))
         IN  IF x.ret THEN SumFrom(Add(acc, x.val), Tail(records)) ELSE x

\* products[product] = products.get(product, 0) + 1, the dict held as its
\* items in insertion order
Increment(products, product) ==
    IF \E i \in DOMAIN products : products[i].key = product
      THEN [i \in DOMAIN products |->
              IF products[i].key = product
                THEN [key |-> product, count |-> products[i].count + 1]
                ELSE products[i]]
      ELSE Append(products, [key |-> product, count |-> 1])

RECURSIVE CountProducts(_, _)
\* the loop over the records that fills products
CountProducts(products, records) ==
    IF records = <<>> THEN products
    ELSE LET product == Get(Head(records), "product_name", Null)
         IN  CountProducts(IF Truthy(product) THEN Increment(products, product)
                           ELSE products,
                           Tail(records))

\* MaxByCount keeping the last of the items with the highest count
MaxByCountLast(items) ==
    LET i == CHOOSE i \in DOMAIN items :
                /\ \A j \in DOMAIN items : items[j].count <= items[i].count
                /\ \A j \in (i + 1)..Len(items) : items[j].count < items[i].count
    IN  items[i].key

\* max(products.items(), key=lambda x: x[1])[0]: max keeps the first of the
\* items with the highest count
MaxByCount(items) ==
    LET i == CHOOSE i \in DOMAIN items :
                /\ \A j \in DOMAIN items : items[j].count <= items[i].count
                /\ \A j \in 1..(i - 1) : items[j].count < items[i].count
    IN  items[i].key

\* number of records with r.get("status") == "Pending"
CountPending(records) ==
    Cardinality({i \in DOMAIN records : Get(records[i], "status", Null) = Str("Pending")})

\* StatsFields reading data["items"], a KeyError when the key is absent
StatsFieldsIndexed(data) ==
    IF ~IsObj(data) THEN Raise(Exc("TypeError"))
    ELSE IF "items" \notin DOMAIN data.f THEN Raise(Exc("KeyError"))
    ELSE LET records == data.f["items"]
         IN  IF ~IsArr(records) THEN Raise(Exc("TypeError"))
             ELSE IF \E i \in DOMAIN records.a : ~IsObj(records.a[i])
               THEN Raise(Exc("AttributeError"))
             ELSE LET total_revenue == SumFrom(IntV(0), records.a)
                      products == CountProducts(<<>>, records.a)
                  IN  IF ~total_revenue.ret THEN total_revenue
                      ELSE Return([total_records |-> IntV(Len(records.a)),
                                   pending_orders |-> IntV(CountPending(records.a)),
                                   total_revenue |-> total_revenue.val,
                                   top_product |-> IF products # <<>>
                                                     THEN MaxByCount(products)
                                                     ELSE Str("None")])

\* The statistics computed from the listing `data`, before the time lookup:
\* the four values, or the exception the computation raises.
StatsFields(data) ==
    IF ~IsObj(data) THEN Raise(Exc("AttributeError"))
    ELSE LET records == Get(data, "items", Arr(<<>>))
         IN  IF ~IsArr(records) THEN Raise(Exc("TypeError"))
             ELSE IF \E i \in DOMAIN records.a : ~IsObj(records.a[i])
               THEN Raise(Exc("AttributeError"))
             ELSE LET total_revenue == SumFrom(IntV(0), records.a)
                      products == CountProducts(<<>>, records.a)
                  IN  IF ~total_revenue.ret THEN total_revenue
                      ELSE Return([total_records |-> IntV(Len(records.a)),
                                   pending_orders |-> IntV(CountPending(records.a)),
                                   total_revenue |-> total_revenue.val,
                                   top_product |-> IF products # <<>>
                                                     THEN MaxByCount(products)
                                                     ELSE Str("None")])

\* requests.get("http://worldtimeapi.org/...").json()["datetime"]
TimeLookup(outcome, newJson) ==
    IF outcome.kind = "raised" THEN Raise(outcome.exc)
    ELSE LET parsed == ResponseJson(outcome.body, newJson)
         IN  IF ~parsed.ret THEN parsed
             ELSE IF ~IsObj(parsed.val) THEN Raise(Exc("TypeError"))
             ELSE IF "datetime" \notin DOMAIN parsed.val.f THEN Raise(Exc("KeyError"))
             ELSE Return(parsed.val.f["datetime"])

LogStatsError(e) ==
    [level |-> "ERROR", by |-> "get_summary_stats", msg |-> "Stats calculation error",
     exc |-> e]

\* the except branch of get_summary_stats
StatsExcept(e) ==
    [result |-> Return(Obj([total_records |-> IntV(0), pending_orders |-> IntV(0),
                            total_revenue |-> IntV(0), top_product |-> Str("Error"),
                            error |-> StrOf(e)])),
     log |-> <<LogStatsError(e)>>]

\* get_summary_stats up to its time lookup, given what make_oracle_request
\* gave: the four values (and the handler goes on), or the handler's result
StatsBeforeTime(forwarded) ==
    IF ~forwarded.ret THEN [goes_on |-> FALSE, out |-> StatsExcept(forwarded.exc)]
    ELSE LET fields == StatsFields(forwarded.val)
         IN  IF fields.ret THEN [goes_on |-> TRUE, fields |-> fields.val]
             ELSE [goes_on |-> FALSE, out |-> StatsExcept(fields.exc)]

\* get_summary_stats from its time lookup on
StatsAfterTime(fields, time) ==
    IF ~time.ret THEN StatsExcept(time.exc)
    ELSE [result |-> Return(Obj([total_records |-> fields.total_records,
                                 pending_orders |-> fields.pending_orders,
                                 total_revenue |-> fields.total_revenue,
                                 top_product |-> fields.top_product,
                                 last_updated |-> time.val])),
          log |-> <<>>]

----------------------------------------------------------------------------
(* health_check *)

\* the try/except around the probe of ORACLE_URL
OracleStatus(probe) ==
    IF probe.kind = "raised" THEN "disconnected"
    ELSE IF probe.status_code = 200 THEN "connected"
    ELSE "error"

\* HealthReturn with the time lookup guarded like the probe
HealthReturnGuarded(oracle_status, time) ==
    Return(Obj([status |-> Str("healthy"),
                oracle_connection |-> Str(oracle_status),
                timestamp |-> IF time.ret THEN time.val ELSE Null]))

\* the return statement, whose time lookup is outside the try
HealthReturn(oracle_status, time) ==
    IF ~time.ret THEN Raise(time.exc)
    ELSE Return(Obj([status |-> Str("healthy"),
                     oracle_connection |-> Str(oracle_status),
                     timestamp |-> time.val]))

----------------------------------------------------------------------------
(* Inputs *)

NumRequests == 2
MaxItems == 3

Requests == 1..NumRequests

Nil == [nil |-> TRUE]

CrudRoutes == {"read_data", "create_data", "read_record", "update_data", "delete_data"}
Routes == CrudRoutes \cup {"health_check", "get_summary_stats"}
IdRoutes == {"read_record", "update_data", "delete_data"}
BodyRoutes == {"create_data", "update_data"}
RecordIds == {"1", "42"}

InboundRequests ==
    {[route |-> x, record_id |-> ""] : x \in Routes \ IdRoutes}
    \cup {[route |-> x, record_id |-> i] : x \in IdRoutes, i \in RecordIds}

\* the bodies a client sends with POST and PUT
InboundBodies ==
    {NotJsonBody,
     JsonBody(Arr(<<>>)),
     JsonBody(Obj([product_name |-> Str("A")])),
     JsonBody(Obj([customer_name |-> Str("Acme"), product_name |-> Str("A")]))}

Statuses == {200, 201, 400, 404, 500}

Bodies ==
    {NotJsonBody,
     JsonBody(Arr(<<>>)),
     JsonBody(Obj([id |-> IntV(1)])),
     JsonBody(Obj([total_amount |-> NonFinite])),
     JsonBody(Obj([message |-> Str("ORA-00001: unique constraint violated")]))}

Faults == {"ReadTimeout", "ConnectTimeout", "ConnectionError", "TooManyRedirects"}

Outcomes ==
    {Responded(s, b) : s \in Statuses, b \in Bodies} \cup {Failed(f) : f \in Faults}

Pending == Str("Pending")
Shipped == Str("Done")

\* the elements an upstream items list is made of
ItemDomain ==
    {Obj([status |-> Pending, total_amount |-> Text(<<"1", "0", ".", "5">>),
          product_name |-> Str("A")]),
     Obj([status |-> Shipped, total_amount |-> Text(<<"5">>), product_name |-> Str("A")]),
     Obj([product_name |-> Str("B")]),
     Obj([status |-> Pending, total_amount |-> IntV(20), product_name |-> Str("B")]),
     Obj([status |-> Shipped, total_amount |-> Text(<<"a", "b", "c">>)]),
     Obj([total_amount |-> Text(<<"n", "a", "n">>), product_name |-> Str("A")]),
     Obj([status |-> Null, total_amount |-> Text(<<"-", "2", ".", "5">>),
          product_name |-> Str("")]),
     Null}

ItemLists == UNION {[1..n -> ItemDomain] : n \in 0..MaxItems}

\* what the listing URL may answer to get_summary_stats
ListingOutcomes ==
    Outcomes
    \cup {Responded(200, JsonBody(Obj([items |-> Arr(l)]))) : l \in ItemLists}
    \cup {Responded(200, JsonBody(Obj([items |-> Null])))}

OutcomesFor(route) == IF route = "get_summary_stats" THEN ListingOutcomes ELSE Outcomes

ProbeOutcomes ==
    {Responded(s, NotJsonBody) : s \in Statuses} \cup {Failed(f) : f \in Faults}

TimeOutcomes ==
    {Responded(200, JsonBody(Obj([datetime |-> Str("2024-01-01T00:00:00+03:00")]))),
     Responded(200, JsonBody(Obj(EmptyDict))),
     Responded(500, NotJsonBody),
     Failed("ConnectionError")}

----------------------------------------------------------------------------
(* The handlers on the event loop *)

MethodOf(route) ==
    CASE route = "create_data" -> "POST"
      [] route = "update_data" -> "PUT"
      [] route = "delete_data" -> "DELETE"
      [] OTHER -> "GET"

\* url = f"{ORACLE_URL}{record_id}"
UrlOf(q) == IF q.route \in IdRoutes THEN ORACLE_URL \o q.record_id ELSE ORACLE_URL

\* the logger.info line a CRUD handler emits before it forwards
LogHandler(q, data) ==
    CASE q.route = "read_data" ->
            [level |-> "INFO", by |-> q.route, msg |-> "Fetching all records from Oracle"]
      [] q.route = "create_data" ->
            [level |-> "INFO", by |-> q.route, msg |-> "Creating new record",
             arg |-> Get(data, "customer_name", Str("Unknown"))]
      [] q.route = "read_record" ->
            [level |-> "INFO", by |-> q.route, msg |-> "Fetching record ID",
             arg |-> Str(q.record_id)]
      [] q.route = "update_data" ->
            [level |-> "INFO", by |-> q.route, msg |-> "Updating record ID",
             arg |-> Str(q.record_id)]
      [] OTHER ->
            [level |-> "INFO", by |-> q.route, msg |-> "Deleting record ID",
             arg |-> Str(q.record_id)]

\* await request.json(): json.loads of the inbound body
RequestJson(body) ==
    IF body.json THEN Return(body.value) ELSE Raise(Exc("json.JSONDecodeError"))

\* create_data and update_data from their body up to the forwarding call: the
\* parsed body, or the exception raised before anything is forwarded
BodyHandled(q, body) ==
    LET parsed == RequestJson(body)
    IN  IF ~parsed.ret THEN parsed
        ELSE IF q.route = "create_data" /\ ~IsObj(parsed.val)
          THEN Raise(Exc("AttributeError"))
        ELSE parsed

Init ==
    /\ newRequests \in BOOLEAN
    /\ loop = 0
    /\ pc = [r \in Requests |-> "idle"]
    /\ req = [r \in Requests |-> Nil]
    /\ call = [r \in Requests |-> Nil]
    /\ upstream = [r \in Requests |-> Nil]
    /\ fwd = [r \in Requests |-> Nil]
    /\ local = [r \in Requests |-> Nil]
    /\ timesvc = [r \in Requests |-> Nil]
    /\ resp = [r \in Requests |-> Nil]
    /\ log = <<>>

\* a client sends request q; it waits for the event loop
Arrive(r, q) ==
    /\ pc[r] = "idle"
    /\ pc' = [pc EXCEPT ![r] = "queued"]
    /\ req' = [req EXCEPT ![r] = q]
    /\ UNCHANGED <<newRequests, loop, call, upstream, fwd, local, timesvc, resp, log>>

\* The idle loop runs r's handler up to its first await that suspends (the
\* body of a POST or PUT) or into its first outbound call, a synchronous
\* requests call that keeps the loop's thread until it ends.
Start(r) ==
    /\ pc[r] = "queued"
    /\ loop = 0
    /\ IF req[r].route \in BodyRoutes
         THEN /\ pc' = [pc EXCEPT ![r] = "body"]
              /\ UNCHANGED <<loop, call, log>>
         ELSE /\ loop' = r
              /\ pc' = [pc EXCEPT ![r] =
                          IF req[r].route = "health_check" THEN "probing" ELSE "calling"]
              /\ call' = [call EXCEPT ![r] =
                            [method |-> "GET",
                             url |-> IF req[r].route = "health_check" THEN ORACLE_URL
                                     ELSE UrlOf(req[r])]]
              /\ log' = IF req[r].route \in CrudRoutes
                          THEN Append(log, LogHandler(req[r], Nil))
                          ELSE log
    /\ UNCHANGED <<newRequests, req, upstream, fwd, local, timesvc, resp>>

\* create_data / update_data resume with the inbound body: they fail before
\* forwarding anything, or log and enter the outbound call
BodyRead(r, body) ==
    /\ pc[r] = "body"
    /\ loop = 0
    /\ LET data == BodyHandled(req[r], body)
           answer == Answer(data)
       IN  IF data.ret
             THEN /\ loop' = r
                  /\ pc' = [pc EXCEPT ![r] = "calling"]
                  /\ call' = [call EXCEPT ![r] =
                                [method |-> MethodOf(req[r].route), url |-> UrlOf(req[r]),
                                 data |-> data.val]]
                  /\ log' = Append(log, LogHandler(req[r], data.val))
                  /\ UNCHANGED resp
             ELSE /\ pc' = [pc EXCEPT ![r] = "done"]
                  /\ resp' = [resp EXCEPT ![r] = answer.response]
                  /\ log' = log \o answer.log
                  /\ UNCHANGED <<loop, call>>
    /\ UNCHANGED <<newRequests, req, upstream, fwd, local, timesvc>>

\* the outbound call of make_oracle_request ends with `outcome`, and
\* make_oracle_request returns or raises
UpstreamReturns(r, outcome) ==
    /\ pc[r] = "calling"
    /\ outcome \in OutcomesFor(req[r].route)
    /\ LET m == make_oracle_request(call[r].method, call[r].url, outcome, newRequests)
       IN  /\ upstream' = [upstream EXCEPT ![r] = outcome]
           /\ fwd' = [fwd EXCEPT ![r] = m.result]
           /\ log' = log \o m.log
    /\ pc' = [pc EXCEPT ![r] = "returned"]
    /\ UNCHANGED <<newRequests, loop, req, call, local, timesvc, resp>>

\* a CRUD handler passes on what make_oracle_request gave, and the
\* application answers
HandlerReturns(r) ==
    /\ pc[r] = "returned"
    /\ req[r].route \in CrudRoutes
    /\ LET answer == Answer(fwd[r])
       IN  /\ resp' = [resp EXCEPT ![r] = answer.response]
           /\ log' = log \o answer.log
    /\ pc' = [pc EXCEPT ![r] = "done"]
    /\ loop' = 0
    /\ UNCHANGED <<newRequests, req, call, upstream, fwd, local, timesvc>>

\* get_summary_stats computes on what make_oracle_request gave: it answers
\* from its except branch, or enters the time lookup
StatsComputes(r) ==
    /\ pc[r] = "returned"
    /\ req[r].route = "get_summary_stats"
    /\ LET s == StatsBeforeTime(fwd[r])
       IN  IF s.goes_on
             THEN /\ local' = [local EXCEPT ![r] = s.fields]
                  /\ pc' = [pc EXCEPT ![r] = "timing"]
                  /\ UNCHANGED <<loop, resp, log>>
             ELSE LET answer == Answer(s.out.result)
                  IN  /\ resp' = [resp EXCEPT ![r] = answer.response]
                      /\ log' = log \o s.out.log \o answer.log
                      /\ pc' = [pc EXCEPT ![r] = "done"]
                      /\ loop' = 0
                      /\ UNCHANGED local
    /\ UNCHANGED <<newRequests, req, call, upstream, fwd, timesvc>>

\* health_check's probe of ORACLE_URL ends; the handler enters the time lookup
ProbeReturns(r, outcome) ==
    /\ pc[r] = "probing"
    /\ upstream' = [upstream EXCEPT ![r] = outcome]
    /\ local' = [local EXCEPT ![r] = OracleStatus(outcome)]
    /\ pc' = [pc EXCEPT ![r] = "timing"]
    /\ UNCHANGED <<newRequests, loop, req, call, fwd, timesvc, resp, log>>

\* the time lookup of health_check or get_summary_stats ends; the handler
\* returns or raises, and the application answers
TimeReturns(r, outcome) ==
    /\ pc[r] = "timing"
    /\ LET time == TimeLookup(outcome, newRequests)
           h == IF req[r].route = "health_check"
                  THEN [result |-> HealthReturn(local[r], time), log |-> <<>>]
                  ELSE StatsAfterTime(local[r], time)
           answer == Answer(h.result)
       IN  /\ resp' = [resp EXCEPT ![r] = answer.response]
           /\ log' = log \o h.log \o answer.log
    /\ timesvc' = [timesvc EXCEPT ![r] = outcome]
    /\ pc' = [pc EXCEPT ![r] = "done"]
    /\ loop' = 0
    /\ UNCHANGED <<newRequests, req, call, upstream, fwd, local>>

\* one inbound request, over all its inputs
Next ==
    \/ \E q \in InboundRequests : Arrive(1, q)
    \/ Start(1)
    \/ \E b \in InboundBodies : BodyRead(1, b)
    \/ \E o \in ListingOutcomes : UpstreamReturns(1, o)
    \/ HandlerReturns(1)
    \/ StatsComputes(1)
    \/ \E o \in ProbeOutcomes : ProbeReturns(1, o)
    \/ \E o \in TimeOutcomes : TimeReturns(1, o)

Spec == Init /\ [][Next]_vars

\* the inputs of the requests that share the event loop
LoopRequests ==
    {[route |-> x, record_id |-> ""] :
        x \in {"read_data", "create_data", "health_check", "get_summary_stats"}}
LoopBodies == {JsonBody(Obj([customer_name |-> Str("Acme")]))}
LoopOutcomes == {Responded(200, JsonBody(Obj([id |-> IntV(1)]))), Failed("ReadTimeout")}
LoopProbes == {Responded(200, NotJsonBody), Failed("ConnectionError")}
LoopTimes == {Responded(200, JsonBody(Obj([datetime |-> Str("2024-01-01T00:00:00+03:00")])))}

\* NumRequests inbound requests in flight on the one event loop
NextLoop ==
    \E r \in Requests :
        \/ \E q \in LoopRequests : Arrive(r, q)
        \/ Start(r)
        \/ \E b \in LoopBodies : BodyRead(r, b)
        \/ \E o \in LoopOutcomes : UpstreamReturns(r, o)
        \/ HandlerReturns(r)
        \/ StatsComputes(r)
        \/ \E o \in LoopProbes : ProbeReturns(r, o)
        \/ \E o \in LoopTimes : TimeReturns(r, o)

SpecLoop == Init /\ [][NextLoop]_vars

----------------------------------------------------------------------------
(* Properties *)

Settled(r) == pc[r] = "done"
OnCrud(r) == req[r] # Nil /\ req[r].route \in CrudRoutes
OnStats(r) == req[r] # Nil /\ req[r].route = "get_summary_stats"
OnHealth(r) == req[r] # Nil /\ req[r].route = "health_check"
\* r's outbound call to the Oracle URL ended with a response / with an exception
GotResponse(r) == upstream[r] # Nil /\ upstream[r].kind = "response"
GotFault(r) == upstream[r] # Nil /\ upstream[r].kind = "raised"

\* the error envelope {error, status_code} sent with HTTP status `code`
Envelope(msg, code) ==
    [status_code |-> code,
     content |-> Obj([error |-> msg, status_code |-> IntV(code)])]

Wrapped(v) == Obj([success |-> True, data |-> v])

\* the shape C1 documents for a 200 or 201 whose body parses to v
Relayed(status, v) == IF status = 200 THEN v ELSE Wrapped(v)

\* C1 as stated: on every CRUD route and verb, an upstream 200 or 201 is always
\* answered with a success response, the body verbatim for 200 and wrapped in
\* {success, data} for 201, never an error.
C1_AsStated ==
    \A r \in Requests :
        (Settled(r) /\ OnCrud(r) /\ GotResponse(r) /\ upstream[r].status_code \in {200, 201})
        => /\ resp[r].status_code = 200
           /\ upstream[r].body.json
              => resp[r].content = Relayed(upstream[r].status_code, upstream[r].body.value)

\* C1 amended: on every CRUD route and verb, an upstream 200 or 201 whose body
\* parses as JSON holding only finite numbers is answered HTTP 200 with the
\* body verbatim (200) or with {success: true, data: body} (201); any other
\* 200 or 201 is answered HTTP 500.
C1_Relay ==
    \A r \in Requests :
        (Settled(r) /\ OnCrud(r) /\ GotResponse(r) /\ upstream[r].status_code \in {200, 201})
        => IF upstream[r].body.json /\ Finite(upstream[r].body.value)
             THEN resp[r] = [status_code |-> 200,
                             content |-> Relayed(upstream[r].status_code,
                                                 upstream[r].body.value)]
             ELSE resp[r].status_code = 500

C1_Witness ==
    \E r \in Requests :
        /\ Settled(r) /\ req[r].route = "update_data" /\ GotResponse(r)
        /\ upstream[r].status_code = 201
        /\ resp[r] = [status_code |-> 200, content |-> Wrapped(Obj([id |-> IntV(1)]))]

NotFound404 == [type |-> "HTTPException", status_code |-> 404, detail |-> Str("Record not found")]

\* C2: on every CRUD route and verb an upstream 404, whatever its body, makes
\* make_oracle_request raise the 404 "Record not found" (its except clauses leave
\* it alone) and the response is HTTP 404 {error: "Record not found",
\* status_code: 404}.
C2_NotFound ==
    \A r \in Requests :
        (OnCrud(r) /\ GotResponse(r) /\ upstream[r].status_code = 404)
        => /\ fwd[r] = [ret |-> FALSE, exc |-> NotFound404]
           /\ Settled(r) => resp[r] = Envelope(Str("Record not found"), 404)

C2_Witness ==
    \E r \in Requests :
        /\ Settled(r) /\ req[r].route = "delete_data" /\ GotResponse(r)
        /\ upstream[r].status_code = 404
        /\ upstream[r].body = JsonBody(Obj([message |-> Str("ORA-00001: unique constraint violated")]))
        /\ resp[r] = Envelope(Str("Record not found"), 404)

Relayable(r) ==
    Settled(r) /\ OnCrud(r) /\ GotResponse(r) /\ upstream[r].status_code \notin {200, 201, 404}

\* the message C3 states for a relayed error
C3_StatedMessage(status, body) ==
    IF ~body.json THEN Str("Oracle API returned status " \o ToString(status))
    ELSE IF IsObj(body.value) /\ "message" \in DOMAIN body.value.f THEN body.value.f["message"]
    ELSE Str("Oracle API error: " \o ToString(status))

\* C3 as stated: a status other than 200, 201, 404 is answered with the upstream
\* status and {error: message, status_code}: the body's `message` if it is JSON
\* with one, "Oracle API error: N" if it is JSON without one, "Oracle API
\* returned status N" if it is not JSON.
C3_AsStated ==
    \A r \in Requests :
        Relayable(r)
        => resp[r] = Envelope(C3_StatedMessage(upstream[r].status_code, upstream[r].body),
                              upstream[r].status_code)

\* the message of the amended C3
C3_Message(status, body) ==
    IF ~body.json \/ ~IsObj(body.value)
      THEN Str("Oracle API returned status " \o ToString(status))
    ELSE IF "message" \notin DOMAIN body.value.f
      THEN Str("Oracle API error: " \o ToString(status))
    ELSE body.value.f["message"]

\* C3 amended: the message is the body's `message` when the body is a JSON
\* object with a `message` string, "Oracle API error: N" when the body is a JSON
\* object without `message`, and "Oracle API returned status N" when the body
\* is not JSON or is JSON but not an object; the response is {error: message,
\* status_code: N} with HTTP status N.
C3_RelayedError ==
    \A r \in Requests :
        Relayable(r)
        => resp[r] = Envelope(C3_Message(upstream[r].status_code, upstream[r].body),
                              upstream[r].status_code)

C3_Witness ==
    \E r \in Requests :
        /\ Relayable(r) /\ upstream[r] = Responded(400, JsonBody(Arr(<<>>)))
        /\ resp[r] = Envelope(Str("Oracle API returned status 400"), 400)

\* the envelope C4 gives each kind of transport fault
FaultCode(type) ==
    CASE type \in {"ReadTimeout", "ConnectTimeout"} -> 504
      [] type = "ConnectionError" -> 503
      [] OTHER -> 500
FaultText(type) ==
    CASE type \in {"ReadTimeout", "ConnectTimeout"} -> Str("Oracle database timeout")
      [] type = "ConnectionError" -> Str("Cannot connect to Oracle database")
      [] OTHER -> Str("Internal server error")

\* C4 as stated: on every route that forwards, with every verb, a timeout is
\* answered 504 {error: "Oracle database timeout"}, a connection failure 503
\* {error: "Cannot connect to Oracle database"}, any other transport fault 500
\* {error: "Internal server error"}, the HTTP status equal to status_code.
C4_AsStated ==
    \A r \in Requests :
        (Settled(r) /\ (OnCrud(r) \/ OnStats(r)) /\ GotFault(r))
        => resp[r] = Envelope(FaultText(upstream[r].exc.type), FaultCode(upstream[r].exc.type))

\* C4 amended: with every verb and on every route make_oracle_request turns a
\* timeout into the failure 504 "Oracle database timeout", a connection failure
\* into 503 "Cannot connect to Oracle database" and any other transport fault
\* into 500 "Internal server error"; on every CRUD route the response is the
\* envelope {error, status_code} of that failure with the same HTTP status,
\* and on the summary-statistics route it is 200 with the degraded body.
C4_Faults ==
    \A r \in Requests :
        ((OnCrud(r) \/ OnStats(r)) /\ GotFault(r))
        => /\ fwd[r] = [ret |-> FALSE,
                        exc |-> [type |-> "HTTPException",
                                 status_code |-> FaultCode(upstream[r].exc.type),
                                 detail |-> FaultText(upstream[r].exc.type)]]
           /\ (Settled(r) /\ OnCrud(r))
              => resp[r] = Envelope(FaultText(upstream[r].exc.type),
                                    FaultCode(upstream[r].exc.type))
           /\ (Settled(r) /\ OnStats(r))
              => resp[r] = [status_code |-> 200,
                            content |->
                              Obj([total_records |-> IntV(0), pending_orders |-> IntV(0),
                                   total_revenue |-> IntV(0), top_product |-> Str("Error"),
                                   error |-> StrOf(fwd[r].exc)])]

C4_Witness ==
    \E r \in Requests :
        /\ Settled(r) /\ req[r].route = "create_data" /\ GotFault(r)
        /\ upstream[r].exc.type = "ConnectionError"
        /\ resp[r] = Envelope(Str("Cannot connect to Oracle database"), 503)

\* the body get_summary_stats answers from its except branch
Degraded(e) ==
    Obj([total_records |-> IntV(0), pending_orders |-> IntV(0), total_revenue |-> IntV(0),
         top_product |-> Str("Error"), error |-> StrOf(e)])

TimeOk(r) == timesvc[r] # Nil /\ TimeLookup(timesvc[r], newRequests).ret

\* C5 as stated: the summary-statistics endpoint never answers a status other
\* than 200; when the forwarding function failed or the time lookup failed the
\* body is the degraded {0, 0, 0, "Error", error} and never the envelope.
C5_AsStated ==
    \A r \in Requests :
        (Settled(r) /\ OnStats(r))
        => /\ resp[r].status_code = 200
           /\ ~fwd[r].ret => resp[r].content = Degraded(fwd[r].exc)
           /\ (timesvc[r] # Nil /\ ~TimeOk(r))
              => resp[r].content = Degraded(TimeLookup(timesvc[r], newRequests).exc)

\* the items of a listing: the `items` list, empty when the key is absent
ItemsOf(listing) == IF "items" \in DOMAIN listing.f THEN listing.f["items"].a ELSE <<>>

\* the listing is a 200 JSON object whose items, if any, are objects with
\* amounts that float() accepts: the computation raises nothing
Coercible(outcome) ==
    /\ outcome.kind = "response" /\ outcome.status_code = 200
    /\ outcome.body.json /\ IsObj(outcome.body.value)
    /\ "items" \in DOMAIN outcome.body.value.f => IsArr(outcome.body.value.f["items"])
    /\ \A i \in DOMAIN ItemsOf(outcome.body.value) :
          LET item == ItemsOf(outcome.body.value)[i]
          IN  /\ IsObj(item)
              /\ "total_amount" \in DOMAIN item.f => ToFloat(item.f["total_amount"]).ret

\* no amount of the items is a nan or an infinity
FiniteAmounts(items) ==
    \A i \in DOMAIN items :
        "total_amount" \in DOMAIN items[i].f
        => ToFloat(items[i].f["total_amount"]).val # NonFinite

\* an item's amount in tenths, 0 when it has none
AmountOf(item) ==
    IF "total_amount" \in DOMAIN item.f THEN Tenths(ToFloat(item.f["total_amount"]).val)
    ELSE 0

RECURSIVE Revenue(_)
Revenue(items) ==
    IF items = <<>> THEN 0 ELSE Revenue(SubSeq(items, 1, Len(items) - 1)) + AmountOf(items[Len(items)])

\* the places of the items named n
Named(items, n) ==
    {i \in DOMAIN items : "product_name" \in DOMAIN items[i].f /\ items[i].f["product_name"] = n}

ProductNames(items) ==
    {items[i].f["product_name"] :
        i \in {j \in DOMAIN items : /\ "product_name" \in DOMAIN items[j].f
                                    /\ items[j].f["product_name"] # Str("")}}

First(S) == CHOOSE i \in S : \A j \in S : i <= j

\* the most frequent product name, the earliest in the list among equals
TopProduct(items) ==
    IF ProductNames(items) = {} THEN Str("None")
    ELSE CHOOSE n \in ProductNames(items) :
            \A m \in ProductNames(items) \ {n} :
                \/ Cardinality(Named(items, n)) > Cardinality(Named(items, m))
                \/ /\ Cardinality(Named(items, n)) = Cardinality(Named(items, m))
                   /\ First(Named(items, n)) < First(Named(items, m))

ExampleItems ==
    <<Obj([status |-> Str("Pending"), total_amount |-> Text(<<"1", "0", ".", "5">>),
           product_name |-> Str("A")]),
      Obj([status |-> Str("Done"), total_amount |-> Text(<<"5">>), product_name |-> Str("A")]),
      Obj([product_name |-> Str("B")])>>

StatKeys == {"total_records", "pending_orders", "total_revenue", "top_product"}

\* C6: when the listing is a 200 and the computation raises nothing, the
\* handler computes total_records as the number of items, pending_orders as the
\* number of items whose status is "Pending" (an item without status is not
\* counted), total_revenue as the sum of the amounts (0 for a missing one),
\* top_product as the most frequent non-empty product name, the first in the
\* list among equals, "None" without any; with a finite sum and a successful
\* time lookup it answers 200 with these values; the items of the example give
\* 3, 1, 15.5 and "A".
C6_Statistics ==
    \A r \in Requests :
        (/\ OnStats(r) /\ pc[r] \in {"timing", "done"}
         /\ upstream[r] # Nil /\ Coercible(upstream[r]))
        => LET items == ItemsOf(upstream[r].body.value)
               got == local[r]
           IN  /\ got # Nil
               /\ got.total_records = IntV(Len(items))
               /\ got.pending_orders =
                     IntV(Cardinality({i \in DOMAIN items :
                                          /\ "status" \in DOMAIN items[i].f
                                          /\ items[i].f["status"] = Str("Pending")}))
               /\ IF FiniteAmounts(items)
                    THEN /\ got.total_revenue # NonFinite
                         /\ Tenths(got.total_revenue) = Revenue(items)
                    ELSE got.total_revenue = NonFinite
               /\ got.top_product = TopProduct(items)
               /\ (Settled(r) /\ TimeOk(r) /\ FiniteAmounts(items))
                  => /\ resp[r].status_code = 200
                     /\ \A k \in StatKeys : resp[r].content.f[k] = got[k]
               /\ items = ExampleItems
                  => /\ got.total_records = IntV(3)
                     /\ got.pending_orders = IntV(1)
                     /\ got.total_revenue = FloatV(155)
                     /\ got.top_product = Str("A")

C6_Witness ==
    \E r \in Requests :
        /\ Settled(r) /\ OnStats(r) /\ GotResponse(r) /\ TimeOk(r)
        /\ upstream[r] = Responded(200, JsonBody(Obj([items |-> Arr(ExampleItems)])))
        /\ resp[r].status_code = 200
        /\ resp[r].content.f["total_revenue"] = FloatV(155)
        /\ resp[r].content.f["top_product"] = Str("A")

\* the listing is a 200 JSON object with an empty items list or none
EmptyListing(outcome) ==
    /\ outcome.kind = "response" /\ outcome.status_code = 200
    /\ outcome.body.json /\ IsObj(outcome.body.value)
    /\ "items" \in DOMAIN outcome.body.value.f => outcome.body.value.f["items"] = Arr(<<>>)

ZeroStats ==
    [total_records |-> IntV(0), pending_orders |-> IntV(0), total_revenue |-> IntV(0),
     top_product |-> Str("None")]

\* C7 as stated: a 200 listing with an empty items list or none is answered 200
\* with exactly {total_records: 0, pending_orders: 0, total_revenue: 0,
\* top_product: "None"}, whatever any other outbound call does.
C7_AsStated ==
    \A r \in Requests :
        (Settled(r) /\ OnStats(r) /\ upstream[r] # Nil /\ EmptyListing(upstream[r]))
        => resp[r] = [status_code |-> 200, content |-> Obj(ZeroStats)]

\* C7 amended: a 200 listing with an empty items list or none is answered 200
\* after the handler's time lookup; when the time lookup succeeds the body is {total_records: 0, pending_orders:
\* 0, total_revenue: 0, top_product: "None", last_updated: the time}, and when
\* the time lookup fails it is the degraded body with top_product "Error".
C7_EmptyListing ==
    \A r \in Requests :
        (Settled(r) /\ OnStats(r) /\ upstream[r] # Nil /\ EmptyListing(upstream[r]))
        => /\ resp[r].status_code = 200
           /\ timesvc[r] # Nil
           /\ IF TimeOk(r)
                THEN /\ DOMAIN resp[r].content.f = DOMAIN ZeroStats \cup {"last_updated"}
                     /\ \A k \in DOMAIN ZeroStats : resp[r].content.f[k] = ZeroStats[k]
                     /\ resp[r].content.f["last_updated"]
                           = TimeLookup(timesvc[r], newRequests).val
                ELSE resp[r].content = Degraded(TimeLookup(timesvc[r], newRequests).exc)

C7_Witness ==
    \E r \in Requests :
        /\ Settled(r) /\ OnStats(r) /\ TimeOk(r)
        /\ upstream[r] = Responded(200, JsonBody(Obj([id |-> IntV(1)])))
        /\ resp[r].status_code = 200
        /\ resp[r].content.f["top_product"] = Str("None")
        /\ "last_updated" \in DOMAIN resp[r].content.f

\* a log record of make_oracle_request that carries the call's method and URL
\* and its outcome: the status of the response, or the failure
LogsOutcome(line, c, outcome) ==
    /\ line.by = "make_oracle_request"
    /\ "method" \in DOMAIN line /\ line.method = c.method
    /\ "url" \in DOMAIN line /\ line.url = c.url
    /\ IF outcome.kind = "response"
         THEN "status" \in DOMAIN line /\ line.status = outcome.status_code
         ELSE "exc" \in DOMAIN line /\ line.exc = outcome.exc

\* C8 as stated: once make_oracle_request has returned or raised, the log holds
\* a record of that call with its method, its URL and its status or failure.
C8_AsStated ==
    \A r \in Requests :
        fwd[r] # Nil => \E i \in DOMAIN log : LogsOutcome(log[i], call[r], upstream[r])

ProbeStatus(outcome) ==
    IF outcome.kind = "raised" THEN Str("disconnected")
    ELSE IF outcome.status_code = 200 THEN Str("connected")
    ELSE Str("error")

\* C9: whatever the probe of the Oracle URL does, the health check answers 200
\* {status: "healthy", oracle_connection, timestamp} with oracle_connection
\* "connected" for a 200, "error" for another status and "disconnected" for an
\* exception, provided the time lookup succeeds; when the time lookup fails the
\* answer is 500 {error: "Internal server error", details}.
C9_Health ==
    \A r \in Requests :
        (Settled(r) /\ OnHealth(r))
        => IF TimeOk(r)
             THEN resp[r] = [status_code |-> 200,
                             content |-> Obj([status |-> Str("healthy"),
                                              oracle_connection |-> ProbeStatus(upstream[r]),
                                              timestamp |-> TimeLookup(timesvc[r], newRequests).val])]
             ELSE /\ resp[r].status_code = 500
                  /\ DOMAIN resp[r].content.f = {"error", "details"}
                  /\ resp[r].content.f["error"] = Str("Internal server error")
                  /\ resp[r].content.f["details"] = StrOf(TimeLookup(timesvc[r], newRequests).exc)

C9_Witness ==
    \E r \in Requests :
        /\ Settled(r) /\ OnHealth(r)
        /\ upstream[r] = Responded(200, NotJsonBody)
        /\ timesvc[r] = Failed("ConnectionError")
        /\ resp[r].status_code = 500

\* C10 as stated: while the outbound call of one request is pending, any other
\* request that waits for its handler to run can run it and issue its own call.
C10_AsStated ==
    \A r, s \in Requests :
        (r # s /\ pc[r] \in {"calling", "probing", "timing"} /\ pc[s] = "queued")
        => ENABLED Start(s)

====
